---- MODULE Spec2Model ----
(***************************************************************************)
(* Model of the Refloat brake-tilt / hold-tilt controller (brake_tilt.c,   *)
(* brake_tilt.h).  The BrakeTilt struct is the record bt; every operation  *)
(* of the header is one action.  C floats are modelled as exact rationals  *)
(* <<n, d>> in lowest terms with d > 0, so that the divisions and the      *)
(* products of the code are computed, not assumed.                         *)
(***************************************************************************)
EXTENDS Integers, Sequences, FiniteSets, TLC

VARIABLES bt, config, call, old, direction, pc

vars == <<bt, config, call, old, direction, pc>>

----------------------------------------------------------------------------
(* Bounds of the model *)

\* largest configured hold-tilt timeout (ticks) that is explored
MaxTimeout == 2

\* number of brake_tilt_winddown decays that setpoint and target may carry
MaxWindDown == 1

\* number of consecutive brake_tilt_winddown calls explored by DecaySpec
MaxRepeat == 2

\* largest brake-tilt strength for which the gain is computed
MaxStrength == 20

----------------------------------------------------------------------------
(* float arithmetic, as exact rationals *)

IAbs(x) == IF x < 0 THEN -x ELSE x

RECURSIVE GCD(_, _)
GCD(a, b) == IF b = 0 THEN a ELSE GCD(b, a % b)

\* the rational n/d (d # 0) in lowest terms with a positive denominator
Frac(n, d) ==
    LET s == IF d < 0 THEN -1 ELSE 1
        g == GCD(IAbs(n), IAbs(d))
    IN  <<(s * n) \div g, (s * d) \div g>>

\* conversion of an int to float
F(i) == <<i, 1>>

FAdd(x, y) == Frac(x[1] * y[2] + y[1] * x[2], x[2] * y[2])
FSub(x, y) == Frac(x[1] * y[2] - y[1] * x[2], x[2] * y[2])
FMul(x, y) == Frac(x[1] * y[1], x[2] * y[2])
FDiv(x, y) == Frac(x[1] * y[2], x[2] * y[1])
FNeg(x)    == <<-x[1], x[2]>>
FLt(x, y)  == x[1] * y[2] < y[1] * x[2]
FLe(x, y)  == x[1] * y[2] <= y[1] * x[2]
FGt(x, y)  == FLt(y, x)
FGe(x, y)  == FLe(y, x)
fabsf(x)   == <<IAbs(x[1]), x[2]>>

Zero == F(0)

RECURSIVE Pow(_, _)
Pow(b, k) == IF k = 0 THEN 1 ELSE b * Pow(b, k - 1)

\* x is an integer multiple of 1/q
MultipleOf(x, q) == q % x[2] = 0

\* utils.h: sign of a float as an int
sign(x) == IF FLt(x, Zero) THEN -1 ELSE 1

\* utils.h: move value toward target by at most step, without overshoot
rate_limitf(value, target, step) ==
    IF FLt(fabsf(FSub(target, value)), step) THEN target
    ELSE IF FGt(FSub(target, value), Zero) THEN FAdd(value, step)
    ELSE FSub(value, step)

----------------------------------------------------------------------------
(* Inputs of the operations *)

\* RefloatConfig, the fields the controller reads
Strengths == {0, 15}
HoldTimeouts == {-1, 0, 1, MaxTimeout}

Configs ==
    [ braketilt_strength : Strengths,
      braketilt_lingering : {2},
      incline_threshold_default : {F(3)},
      hold_tilt_min_target : {F(1)},
      hold_tilt_time_window : {F(1)},
      hold_tilt_pitch_delta_threshold : {F(2)},
      hold_tilt_angle : {F(2)},
      hold_tilt_timeout : HoldTimeouts ]

\* MotorData snapshots: abs_erpm and erpm_sign follow erpm
MotorOf(erpm, braking) ==
    [ erpm |-> F(erpm), abs_erpm |-> fabsf(F(erpm)),
      erpm_sign |-> sign(F(erpm)), braking |-> braking ]

\* the snapshots of a ride in direction d (1 forward, -1 backward):
\* near standstill, slow, and fast with and without braking
Motors(d) ==
    { MotorOf(d * 400, TRUE), MotorOf(d * 700, FALSE),
      MotorOf(d * 2500, FALSE), MotorOf(d * 2500, TRUE) }

\* ATR snapshots: level ground, inclines and declines on both sides of
\* the downhill thresholds (1, damper 2) and of incline_threshold_default
\* (accel_diff < 0 is a decline for a forward ride)
AccelDiffs == {-4, -3, -2, 0, 2, 4}

Atrs(d) == [ accel_diff : { F(d * a) : a \in AccelDiffs },
             on_step_size : {F(2)}, off_step_size : {F(2)} ]

BalanceOffsets == { F(-3), F(3) }

\* IMU snapshots
Imus == { [pitch |-> F(5), balance_pitch |-> F(3)],
          [pitch |-> F(0), balance_pitch |-> F(3)],
          [pitch |-> F(0), balance_pitch |-> F(0)] }

Dts == { F(0), F(1) }

----------------------------------------------------------------------------
(* The operations, as functions of the BrakeTilt struct b *)

\* brake_tilt_reset
brake_tilt_reset(b) ==
    [ b EXCEPT !.target = Zero, !.setpoint = Zero,
               !.hold_tilt_active = FALSE, !.hold_tilt_value = Zero,
               !.hold_counter = 0, !.pitch_timer = Zero,
               !.pitch_at_trigger = Zero,
               !.hold_tilt_pitch_drop_detected = 0 ]

\* brake_tilt_init: the struct is uninitialized before, every field is set
brake_tilt_init ==
    brake_tilt_reset(
        [ factor |-> Zero, target |-> Zero, setpoint |-> Zero,
          hold_tilt_active |-> FALSE, hold_tilt_value |-> Zero,
          hold_counter |-> 0, pitch_timer |-> Zero,
          pitch_at_trigger |-> Zero, hold_tilt_pitch_drop_detected |-> 0 ])

\* (variant: the sign is not folded into the gain)
brake_tilt_configure_Unsigned(b, cfg) ==
    IF cfg.braketilt_strength = 0
    THEN [ b EXCEPT !.factor = Zero ]
    ELSE [ b EXCEPT !.factor =
             FAdd(Frac(1, 2), FDiv(F(20 - cfg.braketilt_strength), F(5))) ]

\* brake_tilt_configure
brake_tilt_configure(b, cfg) ==
    IF cfg.braketilt_strength = 0
    THEN [ b EXCEPT !.factor = Zero ]
    ELSE [ b EXCEPT !.factor =
             FNeg(FAdd(Frac(1, 2), FDiv(F(20 - cfg.braketilt_strength), F(5)))) ]

\* the disable gate of brake_tilt_update: wheelslip, incline or decline
GateFires(atr, cfg, wheelslip) ==
    \/ wheelslip
    \/ FGt(atr.accel_diff, cfg.incline_threshold_default)
    \/ FLt(atr.accel_diff, FNeg(cfg.incline_threshold_default))

\* (variant: the gate zeroes the target and leaves hold-tilt running)
GateStep_TargetOnly(b) == [ b EXCEPT !.target = Zero ]

\* (variant: the gate also closes the pitch-drop window)
GateStep_ClosesWindow(b) ==
    LET b1 == [ b EXCEPT !.target = Zero, !.pitch_timer = Zero ]
    IN  IF b.hold_tilt_active
        THEN [ b1 EXCEPT !.hold_tilt_active = FALSE, !.hold_counter = 0 ]
        ELSE b1

GateStep(b) ==
    LET b1 == [ b EXCEPT !.target = Zero ]
    IN  IF b.hold_tilt_active
        THEN [ b1 EXCEPT !.hold_tilt_active = FALSE, !.hold_counter = 0 ]
        ELSE b1

\* the brake-tilt activation condition without the sign check
Braking(b, motor) ==
    FLt(b.factor, Zero) /\ motor.braking /\ FGt(motor.abs_erpm, F(2000))

\* (variant: only a forward downhill is damped)
DownhillDamper_ForwardOnly(motor, atr) ==
    IF FGt(motor.erpm, F(1000)) /\ FLt(atr.accel_diff, F(-1))
    THEN FAdd(F(1), FDiv(fabsf(atr.accel_diff), F(2)))
    ELSE F(1)

\* downhill_damper of the activation step
DownhillDamper(motor, atr) ==
    IF \/ FGt(motor.erpm, F(1000)) /\ FLt(atr.accel_diff, F(-1))
       \/ FLt(motor.erpm, F(-1000)) /\ FGt(atr.accel_diff, F(1))
    THEN FAdd(F(1), FDiv(fabsf(atr.accel_diff), F(2)))
    ELSE F(1)

\* (variant: the suppression threshold of the damper is 3 instead of 2)
SteepDownhill_Three(damper) == FGt(damper, F(3))

\* steep downhill: the feature is not enabled at all
SteepDownhill(damper) == FGt(damper, F(2))

\* (variant: the target is left as it is when the motor is not braking)
ActivationStep_KeepsTarget(b, motor, atr, balance_offset) ==
    IF /\ FLt(b.factor, Zero) /\ motor.braking
       /\ FGt(motor.abs_erpm, F(2000))
       /\ sign(balance_offset) # motor.erpm_sign
    THEN LET d == IF \/ FGt(motor.erpm, F(1000)) /\ FLt(atr.accel_diff, F(-1))
                     \/ FLt(motor.erpm, F(-1000)) /\ FGt(atr.accel_diff, F(1))
                  THEN FAdd(F(1), FDiv(fabsf(atr.accel_diff), F(2)))
                  ELSE F(1)
         IN  IF FGt(d, F(2))
             THEN [ b EXCEPT !.target = Zero ]
             ELSE [ b EXCEPT !.target = FDiv(FDiv(balance_offset, b.factor), d) ]
    ELSE b

\* brake-tilt activation: the new target
ActivationStep(b, motor, atr, balance_offset) ==
    IF Braking(b, motor)
    THEN IF sign(balance_offset) # motor.erpm_sign
         THEN LET downhill_damper == DownhillDamper(motor, atr)
              IN  IF SteepDownhill(downhill_damper)
                  THEN [ b EXCEPT !.target = Zero ]
                  ELSE [ b EXCEPT !.target =
                           FDiv(FDiv(balance_offset, b.factor), downhill_damper) ]
         ELSE b
    ELSE [ b EXCEPT !.target = Zero ]

\* (variant: the window runs whatever the target)
MonitorPitch_AnyTarget(b, cfg, wheelslip) ==
    ~b.hold_tilt_active /\ ~wheelslip

\* the condition under which the pitch-drop window runs
MonitorPitch(b, cfg, wheelslip) ==
    /\ ~b.hold_tilt_active
    /\ FGt(fabsf(b.target), cfg.hold_tilt_min_target)
    /\ ~wheelslip

\* pitch-drop detection window
PitchDropStep(b, cfg, imu, dt, wheelslip) ==
    IF MonitorPitch(b, cfg, wheelslip)
    THEN IF FLe(b.pitch_timer, Zero)
         THEN [ b EXCEPT !.pitch_at_trigger = imu.pitch,
                         !.pitch_timer = cfg.hold_tilt_time_window,
                         !.hold_tilt_pitch_drop_detected = 0 ]
         ELSE LET pitch_delta == FSub(b.pitch_at_trigger, imu.pitch)
                  b1 == IF FGt(pitch_delta, cfg.hold_tilt_pitch_delta_threshold)
                        THEN [ b EXCEPT !.hold_tilt_pitch_drop_detected = 1 ]
                        ELSE b
              IN  [ b1 EXCEPT !.pitch_timer = FSub(b.pitch_timer, dt) ]
    ELSE [ b EXCEPT !.pitch_timer = Zero,
                    !.hold_tilt_pitch_drop_detected = 0 ]

\* (variant: the latch is left set by the activation)
HoldActivateStep_KeepsLatch(b, cfg) ==
    IF ~b.hold_tilt_active /\ b.hold_tilt_pitch_drop_detected # 0
    THEN [ b EXCEPT !.hold_tilt_active = TRUE,
                    !.hold_tilt_value = cfg.hold_tilt_angle,
                    !.hold_counter = cfg.hold_tilt_timeout,
                    !.pitch_timer = Zero ]
    ELSE b

\* hold-tilt activation when a pitch drop is latched
HoldActivateStep(b, cfg) ==
    IF ~b.hold_tilt_active /\ b.hold_tilt_pitch_drop_detected # 0
    THEN [ b EXCEPT !.hold_tilt_active = TRUE,
                    !.hold_tilt_value = cfg.hold_tilt_angle,
                    !.hold_counter = cfg.hold_tilt_timeout,
                    !.pitch_timer = Zero,
                    !.hold_tilt_pitch_drop_detected = 0 ]
    ELSE b

\* (variant: the setpoint snaps to the held value)
HoldSetpoint_Snap(b, imu) == b.hold_tilt_value

\* the setpoint while hold-tilt is active
HoldSetpoint(b, imu) ==
    IF FLt(imu.balance_pitch, b.hold_tilt_value)
    THEN FAdd(b.hold_tilt_value,
              FMul(Frac(1, 2), FSub(b.hold_tilt_value, imu.balance_pitch)))
    ELSE b.hold_tilt_value

\* (variant: hold_counter-- <= 0, the counter is tested before it is lowered)
HoldStep_PostDecrement(b, imu) ==
    LET b1 == [ b EXCEPT !.setpoint =
                    IF FLt(imu.balance_pitch, b.hold_tilt_value)
                    THEN FAdd(b.hold_tilt_value,
                              FMul(Frac(1, 2),
                                   FSub(b.hold_tilt_value, imu.balance_pitch)))
                    ELSE b.hold_tilt_value,
                         !.hold_counter = b.hold_counter - 1 ]
    IN  IF b.hold_counter <= 0
        THEN [ b1 EXCEPT !.hold_tilt_active = FALSE, !.hold_counter = 0 ]
        ELSE b1

\* (variant: the expired counter is not reset to 0)
HoldStep_NoCounterReset(b, imu) ==
    LET b1 == [ b EXCEPT !.setpoint =
                    IF FLt(imu.balance_pitch, b.hold_tilt_value)
                    THEN FAdd(b.hold_tilt_value,
                              FMul(Frac(1, 2),
                                   FSub(b.hold_tilt_value, imu.balance_pitch)))
                    ELSE b.hold_tilt_value,
                         !.hold_counter = b.hold_counter - 1 ]
    IN  IF b1.hold_counter <= 0
        THEN [ b1 EXCEPT !.hold_tilt_active = FALSE ]
        ELSE b1

\* hold-tilt behaviour: lock the setpoint and count down
HoldStep(b, imu) ==
    LET b1 == [ b EXCEPT !.setpoint = HoldSetpoint(b, imu),
                         !.hold_counter = b.hold_counter - 1 ]
    IN  IF b1.hold_counter <= 0
        THEN [ b1 EXCEPT !.hold_tilt_active = FALSE, !.hold_counter = 0 ]
        ELSE b1

\* (variant: no "on" step of its own below 800 ERPM)
StepSize_NoSlowCase(b, motor, atr, cfg) ==
    LET s0 == FDiv(atr.off_step_size, F(cfg.braketilt_lingering))
        s1 == IF FGt(fabsf(b.target), fabsf(b.setpoint))
              THEN FMul(atr.on_step_size, Frac(3, 2))
              ELSE s0
    IN  IF FLt(motor.abs_erpm, F(500)) THEN FDiv(s1, F(2)) ELSE s1

\* braketilt_step_size
StepSize(b, motor, atr, cfg) ==
    LET s0 == FDiv(atr.off_step_size, F(cfg.braketilt_lingering))
        s1 == IF FGt(fabsf(b.target), fabsf(b.setpoint))
              THEN FMul(atr.on_step_size, Frac(3, 2))
              ELSE IF FLt(motor.abs_erpm, F(800))
                   THEN atr.on_step_size
                   ELSE s0
    IN  IF FLt(motor.abs_erpm, F(500)) THEN FDiv(s1, F(2)) ELSE s1

\* (variant: the setpoint follows the target at once)
RateLimitStep_Snap(b, motor, atr, cfg) == [ b EXCEPT !.setpoint = b.target ]

\* brake-tilt step logic
RateLimitStep(b, motor, atr, cfg) ==
    [ b EXCEPT !.setpoint =
        rate_limitf(b.setpoint, b.target, StepSize(b, motor, atr, cfg)) ]

\* the struct after the hold-tilt activation step of a gate-passing call
AfterActivation(b, motor, atr, cfg, balance_offset, imu, dt, wheelslip) ==
    HoldActivateStep(
        PitchDropStep(ActivationStep(b, motor, atr, balance_offset),
                      cfg, imu, dt, wheelslip),
        cfg)

\* brake_tilt_update
brake_tilt_update(b, motor, atr, cfg, balance_offset, imu, dt, wheelslip) ==
    IF GateFires(atr, cfg, wheelslip)
    THEN GateStep(b)
    ELSE LET b3 == AfterActivation(b, motor, atr, cfg, balance_offset,
                                   imu, dt, wheelslip)
         IN  IF b3.hold_tilt_active
             THEN HoldStep(b3, imu)
             ELSE RateLimitStep(b3, motor, atr, cfg)

\* (variant: the two decay factors are exchanged)
brake_tilt_winddown_Swapped(b) ==
    LET b1 == [ b EXCEPT !.setpoint = FMul(b.setpoint, Frac(99, 100)),
                         !.target = FMul(b.target, Frac(995, 1000)) ]
    IN  IF b.hold_tilt_active
        THEN [ b1 EXCEPT !.hold_tilt_active = FALSE, !.hold_counter = 0 ]
        ELSE b1

\* (variant: winddown decays the values and leaves hold-tilt as it is)
brake_tilt_winddown_KeepsHold(b) ==
    [ b EXCEPT !.setpoint = FMul(b.setpoint, Frac(995, 1000)),
               !.target = FMul(b.target, Frac(99, 100)) ]

\* brake_tilt_winddown
brake_tilt_winddown(b) ==
    LET b1 == [ b EXCEPT !.setpoint = FMul(b.setpoint, Frac(995, 1000)),
                         !.target = FMul(b.target, Frac(99, 100)) ]
    IN  IF b.hold_tilt_active
        THEN [ b1 EXCEPT !.hold_tilt_active = FALSE, !.hold_counter = 0 ]
        ELSE b1

----------------------------------------------------------------------------
(* The state machine.  pc is "idle" between two operations and "done"     *)
(* when an operation has just run; then call is the operation with its     *)
(* inputs and old is the struct as it was before it.  Return hands         *)
(* control back to the balance loop and drops that record.  direction is  *)
(* the direction of travel of the ride, which the motor and ATR snapshots  *)
(* follow; it is chosen anew at every reset.                               *)

\* the inputs recorded for an operation that takes none
NoMotor == MotorOf(0, FALSE)
NoAtr == [ accel_diff |-> Zero, on_step_size |-> Zero, off_step_size |-> Zero ]
NoImu == [ pitch |-> Zero, balance_pitch |-> Zero ]

Call(op, motor, atr, balance_offset, imu, dt, wheelslip) ==
    [ op |-> op, motor |-> motor, atr |-> atr,
      balance_offset |-> balance_offset, imu |-> imu, dt |-> dt,
      wheelslip |-> wheelslip ]

PlainCall(op) == Call(op, NoMotor, NoAtr, Zero, NoImu, Zero, FALSE)

\* setpoint and target carry at most k decays of brake_tilt_winddown, which
\* multiplies them by 199/200 and 99/100: the guard that bounds WindDown
Decays(b, k) ==
    /\ k >= 0
    /\ MultipleOf(b.setpoint, Pow(200, k))
    /\ MultipleOf(b.target, Pow(100, k))

Init ==
    /\ config \in Configs
    /\ bt = brake_tilt_init
    /\ old = brake_tilt_init
    /\ call = PlainCall("init")
    /\ direction \in {-1, 1}
    /\ pc = "done"

Reset ==
    /\ pc = "idle"
    /\ bt' = brake_tilt_reset(bt)
    /\ old' = bt
    /\ call' = PlainCall("reset")
    /\ direction' \in {-1, 1}
    /\ pc' = "done"
    /\ UNCHANGED config

Configure ==
    /\ pc = "idle"
    /\ \E cfg \in Configs :
        /\ config' = cfg
        /\ bt' = brake_tilt_configure(bt, cfg)
    /\ old' = bt
    /\ call' = PlainCall("configure")
    /\ pc' = "done"
    /\ UNCHANGED direction

Update ==
    /\ pc = "idle"
    /\ \E motor \in Motors(direction), atr \in Atrs(direction), balance_offset \in BalanceOffsets,
          imu \in Imus, dt \in Dts, wheelslip \in BOOLEAN :
        /\ bt' = brake_tilt_update(bt, motor, atr, config, balance_offset,
                                   imu, dt, wheelslip)
        /\ call' = Call("update", motor, atr, balance_offset, imu, dt, wheelslip)
    /\ old' = bt
    /\ pc' = "done"
    /\ UNCHANGED <<config, direction>>

WindDown ==
    /\ pc = "idle"
    /\ Decays(bt, MaxWindDown - 1)
    /\ bt' = brake_tilt_winddown(bt)
    /\ old' = bt
    /\ call' = PlainCall("winddown")
    /\ pc' = "done"
    /\ UNCHANGED <<config, direction>>

Return ==
    /\ pc = "done"
    /\ pc' = "idle"
    /\ call' = PlainCall("none")
    /\ old' = bt
    /\ UNCHANGED <<bt, config, direction>>

Next == Reset \/ Configure \/ Update \/ WindDown \/ Return

Spec == Init /\ [][Next]_vars

(* DecaySpec: the controller wound down repeatedly.  brake_tilt_update    *)
(* runs on values that carry no decay, and up to MaxRepeat calls of        *)
(* brake_tilt_winddown follow one another.                                 *)

UpdateFresh == Decays(bt, 0) /\ Update

WindDownRepeat ==
    /\ pc = "idle"
    /\ Decays(bt, MaxRepeat - 1)
    /\ bt' = brake_tilt_winddown(bt)
    /\ old' = bt
    /\ call' = PlainCall("winddown")
    /\ pc' = "done"
    /\ UNCHANGED <<config, direction>>

DecayNext == Reset \/ Configure \/ UpdateFresh \/ WindDownRepeat \/ Return

DecaySpec == Init /\ [][DecayNext]_vars

(* WindowSpec: the controller reconfigured between a hold-tilt detection   *)
(* window that is positive and one that is switched off (0), with          *)
(* brake-tilt enabled.                                                     *)

WindowConfigs ==
    [ braketilt_strength : {15},
      braketilt_lingering : {2},
      incline_threshold_default : {F(3)},
      hold_tilt_min_target : {F(1)},
      hold_tilt_time_window : {F(0), F(1)},
      hold_tilt_pitch_delta_threshold : {F(2)},
      hold_tilt_angle : {F(2)},
      hold_tilt_timeout : {1, MaxTimeout} ]

WindowInit ==
    /\ config \in WindowConfigs
    /\ bt = brake_tilt_configure(brake_tilt_init, config)
    /\ old = brake_tilt_init
    /\ call = PlainCall("configure")
    /\ direction \in {-1, 1}
    /\ pc = "done"

Reconfigure ==
    /\ pc = "idle"
    /\ \E cfg \in WindowConfigs :
        /\ config' = cfg
        /\ bt' = brake_tilt_configure(bt, cfg)
    /\ old' = bt
    /\ call' = PlainCall("configure")
    /\ pc' = "done"
    /\ UNCHANGED direction

WindowNext == Reset \/ Reconfigure \/ Update \/ WindDown \/ Return

WindowSpec == WindowInit /\ [][WindowNext]_vars

TypeOK ==
    /\ config \in Configs
    /\ bt.hold_tilt_active \in BOOLEAN
    /\ bt.hold_tilt_pitch_drop_detected \in {0, 1}
    /\ Decays(bt, MaxWindDown)
    /\ direction \in {-1, 1}
    /\ pc \in {"idle", "done"}

----------------------------------------------------------------------------
(* Vocabulary of the properties: conditions on the recorded call, spelled  *)
(* out on the inputs and on the struct before (old) and after (bt) it.     *)

\* a brake_tilt_update call has just run
Updated == pc = "done" /\ call.op = "update"

\* |accelDiff| > inclineThresholdDefault
OffLevel == FGt(fabsf(call.atr.accel_diff), config.incline_threshold_default)

\* the call took the disable gate / passed it
Gated == Updated /\ (call.wheelslip \/ OffLevel)
Passed == Updated /\ ~call.wheelslip /\ ~OffLevel

\* factor < 0, motor braking and absErpm > 2000
BrakingFast ==
    /\ old.factor[1] < 0
    /\ call.motor.braking
    /\ FGt(call.motor.abs_erpm, F(2000))

\* the balance offset opposes the direction of travel
SignMismatch == sign(call.balance_offset) # call.motor.erpm_sign

\* the brake-tilt activation condition
ActivationMet == BrakingFast /\ SignMismatch

\* braking on a downhill, in either direction
Downhill ==
    \/ FGt(call.motor.erpm, F(1000)) /\ FLt(call.atr.accel_diff, F(-1))
    \/ FLt(call.motor.erpm, F(-1000)) /\ FGt(call.atr.accel_diff, F(1))

\* the reference downhill damper: 1 + |accelDiff| / 2 on a downhill, else 1
RefDamper ==
    IF Downhill
    THEN FAdd(F(1), FMul(Frac(1, 2), fabsf(call.atr.accel_diff)))
    ELSE F(1)

\* the reference target of an activated call
RefTarget ==
    IF FLe(RefDamper, F(2))
    THEN FDiv(call.balance_offset, FMul(old.factor, RefDamper))
    ELSE Zero

\* a pitch drop seen in a window that was open when the call began, with
\* hold-tilt inactive and the target of this call above the minimum
DropInWindow ==
    /\ Passed
    /\ ~old.hold_tilt_active
    /\ FGt(old.pitch_timer, Zero)
    /\ FGt(fabsf(bt.target), config.hold_tilt_min_target)
    /\ FGt(FSub(old.pitch_at_trigger, call.imu.pitch),
           config.hold_tilt_pitch_delta_threshold)

\* the setpoint of a hold-tilt tick with the configured hold angle
RefHoldSetpoint ==
    IF FLt(call.imu.balance_pitch, config.hold_tilt_angle)
    THEN FAdd(config.hold_tilt_angle,
              FMul(Frac(1, 2),
                   FSub(config.hold_tilt_angle, call.imu.balance_pitch)))
    ELSE config.hold_tilt_angle

----------------------------------------------------------------------------
(* C1.  After every brake_tilt_update call with wheelslip or with          *)
(* |accelDiff| > inclineThresholdDefault, whatever the other inputs:       *)
(* target == 0, and if hold-tilt was active before the call it is          *)
(* inactive after it with holdCounter == 0.                                *)
C1_GateZeroesTargetAndHold ==
    Gated =>
        /\ bt.target = Zero
        /\ old.hold_tilt_active =>
               ~bt.hold_tilt_active /\ bt.hold_counter = 0

\* an incline (no wheelslip) stopped an active hold-tilt with a live target
C1_Witness ==
    /\ Gated
    /\ ~call.wheelslip
    /\ old.hold_tilt_active
    /\ old.hold_counter > 0
    /\ old.target # Zero
    /\ bt.target = Zero
    /\ ~bt.hold_tilt_active

(* C2.  On every gate-passing brake_tilt_update call on which the          *)
(* activation condition (factor < 0, braking, absErpm > 2000 and           *)
(* sign(balanceOffset) != erpmSign) is not met, target == 0 after the      *)
(* call, whatever target was before.                                       *)
C2_NotActivatedZeroesTarget ==
    (Passed /\ ~ActivationMet) => bt.target = Zero

(* C3, as stated.  On every gate-passing call that meets the activation    *)
(* condition, a downhill damper >= 2 gives target == 0.                    *)
C3_DamperAtLeastTwoZeroesTarget ==
    (Passed /\ ActivationMet /\ FGe(RefDamper, F(2))) => bt.target = Zero

(* C3, amended.  On every gate-passing call that meets the activation      *)
(* condition, a downhill damper > 2 gives target == 0.                     *)
C3_SteepDownhillZeroesTarget ==
    (Passed /\ ActivationMet /\ FGt(RefDamper, F(2))) => bt.target = Zero

\* a steep downhill suppressed a target that was live before the call
C3_Witness ==
    /\ Passed
    /\ ActivationMet
    /\ FGt(RefDamper, F(2))
    /\ old.target # Zero
    /\ bt.target = Zero

(* C4.  On every gate-passing call that meets the activation condition,    *)
(* target after the call is balanceOffset / factor / damper when           *)
(* damper <= 2 and 0 when damper > 2, with damper = 1 + |accelDiff| / 2    *)
(* on a downhill (erpm > 1000 and accelDiff < -1, or erpm < -1000 and      *)
(* accelDiff > 1) and 1 otherwise.                                         *)
C4_TargetIsReference ==
    (Passed /\ ActivationMet) => bt.target = RefTarget

\* damper exactly 2 halves the target and does not suppress it
C4_Witness ==
    /\ Passed
    /\ ActivationMet
    /\ RefDamper = F(2)
    /\ bt.target # Zero
    /\ bt.target = FDiv(FDiv(call.balance_offset, old.factor), F(2))

(* C5, as stated.  A pitch drop seen in an open window on a gate-passing   *)
(* call, with hold-tilt inactive and |target| > holdTiltMinTarget,         *)
(* activates hold-tilt on that call; after the call holdTiltValue is the   *)
(* configured hold angle and holdCounter is the configured hold timeout.   *)
C5_DropActivatesHoldWithTimeout ==
    DropInWindow =>
        /\ bt.hold_tilt_active
        /\ bt.hold_tilt_value = config.hold_tilt_angle
        /\ bt.hold_counter = config.hold_tilt_timeout

(* C5, amended.  Under the same condition hold-tilt activates on that      *)
(* call and the call already counts as its first tick: after the call      *)
(* holdTiltValue is the configured hold angle, setpoint is the hold-tilt   *)
(* setpoint, the window and the latch are cleared, and holdCounter is      *)
(* timeout - 1 with hold-tilt active if timeout > 1, and 0 with hold-tilt  *)
(* inactive again if timeout <= 1.                                         *)
C5_DropActivatesHoldFirstTick ==
    DropInWindow =>
        /\ bt.hold_tilt_value = config.hold_tilt_angle
        /\ bt.setpoint = RefHoldSetpoint
        /\ bt.pitch_timer = Zero
        /\ bt.hold_tilt_pitch_drop_detected = 0
        /\ IF config.hold_tilt_timeout > 1
           THEN /\ bt.hold_tilt_active
                /\ bt.hold_counter = config.hold_tilt_timeout - 1
           ELSE /\ ~bt.hold_tilt_active
                /\ bt.hold_counter = 0

\* hold-tilt engaged by a pitch drop and still counting after the call
C5_Witness ==
    /\ DropInWindow
    /\ old.hold_tilt_value # config.hold_tilt_angle
    /\ bt.hold_tilt_active
    /\ bt.hold_counter = config.hold_tilt_timeout - 1
    /\ bt.hold_counter > 0

(* C6.  Hold-tilt activated with configured timeout N locks the setpoint   *)
(* on exactly N ticks, each of which decrements holdCounter, and           *)
(* holdCounter is never negative, also for N <= 0.  Tick by tick: the      *)
(* activating call is the first locked tick and leaves N - 1 ticks to      *)
(* go (none of them for N <= 0, where no tick may be locked at all);       *)
(* every later locked tick lowers holdCounter by one and hold-tilt stays   *)
(* active exactly while holdCounter > 0.                                   *)
C6_HoldLastsExactlyTimeoutTicks ==
    /\ bt.hold_counter >= 0
    /\ DropInWindow => 1 + bt.hold_counter = config.hold_tilt_timeout
    /\ (Passed /\ old.hold_tilt_active) =>
           /\ bt.hold_counter = old.hold_counter - 1
           /\ bt.hold_tilt_active <=> bt.hold_counter > 0

(* C7.  After every brake_tilt_update call on which the pitch-drop         *)
(* trigger preconditions are not met (hold-tilt already engaged, or        *)
(* |target| <= holdTiltMinTarget, or wheelslip), pitchTimer == 0 and the   *)
(* latch is clear.                                                         *)
C7_WindowClearedWhenNotMonitoring ==
    ( /\ Updated
      /\ \/ old.hold_tilt_active
         \/ FLe(fabsf(bt.target), config.hold_tilt_min_target)
         \/ call.wheelslip )
    => (bt.pitch_timer = Zero /\ bt.hold_tilt_pitch_drop_detected = 0)

(* C8.  On every update tick on which a suppression condition holds        *)
(* (wheelslip, |accelDiff| beyond the incline threshold, or a steep        *)
(* downhill with damper > 2 while the activation condition is met), the    *)
(* setpoint goes through the rate limiter toward 0: with positive step     *)
(* sizes it does not move away from 0, it moves by at most the largest     *)
(* step size, and a setpoint that is not yet 0 gets strictly closer to 0.  *)
Suppressed ==
    /\ Updated
    /\ \/ call.wheelslip
       \/ OffLevel
       \/ ActivationMet /\ FGt(RefDamper, F(2))

\* the largest step the rate limiter can choose: 1.5 x the "on" step, the
\* "on" step, or the "off" step over the lingering divisor
MaxStep ==
    LET a == FMul(call.atr.on_step_size, Frac(3, 2))
        d == FDiv(call.atr.off_step_size, F(config.braketilt_lingering))
    IN  IF FLt(a, d) THEN d ELSE a

C8_SuppressionTrendsToZero ==
    Suppressed =>
        /\ FLe(fabsf(bt.setpoint), fabsf(old.setpoint))
        /\ FLe(fabsf(FSub(bt.setpoint, old.setpoint)), MaxStep)
        /\ old.setpoint # Zero => FLt(fabsf(bt.setpoint), fabsf(old.setpoint))

(* C9.  If factor == 0, target == 0 after every brake_tilt_update call,    *)
(* whatever the inputs and the state before the call.                      *)
C9_ZeroFactorZeroTarget ==
    (Updated /\ old.factor = Zero) => bt.target = Zero

\* braking hard on level ground with the strength configured to 0 after a
\* target had been built up
C9_Witness ==
    /\ Passed
    /\ old.factor = Zero
    /\ call.motor.braking
    /\ FGt(call.motor.abs_erpm, F(2000))
    /\ SignMismatch
    /\ old.target # Zero
    /\ bt.target = Zero

(* C10.  If factor == 0, under repeated brake_tilt_update ticks with no    *)
(* braking, from any reachable state, |setpoint| never increases from one  *)
(* tick to the next (and so converges to 0).  Stated here is the           *)
(* tick-to-tick half, which the convergence rests on.                      *)
C10_ZeroFactorSetpointNeverGrows ==
    (Updated /\ old.factor = Zero /\ ~call.motor.braking) =>
        FLe(fabsf(bt.setpoint), fabsf(old.setpoint))

(* C11.  factor is never positive: brake_tilt_init sets it to 0,           *)
(* brake_tilt_configure sets it to 0 for strength 0 and otherwise to        *)
(* -(0.5 + (20 - strength) / 5), which is strictly negative for every       *)
(* strength 1..MaxStrength, and no other operation changes it.              *)
RefFactor(strength) ==
    IF strength = 0 THEN Zero
    ELSE FSub(Zero, FAdd(Frac(1, 2), Frac(20 - strength, 5)))

Ran(op) == pc = "done" /\ call.op = op

C11_FactorNeverPositive ==
    /\ bt.factor[1] <= 0
    /\ pc = "done" =>
           IF call.op = "configure"
           THEN /\ bt.factor = RefFactor(config.braketilt_strength)
                /\ \A strength \in 1..MaxStrength :
                       LET cfg == [config EXCEPT !.braketilt_strength = strength]
                           f == brake_tilt_configure(old, cfg).factor
                       IN  f = RefFactor(strength) /\ f[1] < 0
           ELSE IF call.op = "init"
                THEN bt.factor = Zero
                ELSE bt.factor = old.factor

\* a configure call turned the gain from 0 to a negative value
C11_Witness ==
    /\ Ran("configure")
    /\ old.factor = Zero
    /\ config.braketilt_strength # 0
    /\ FLt(bt.factor, Zero)

(* C12.  Every brake_tilt_winddown call multiplies setpoint by 0.995 and   *)
(* target by 0.99, whatever the rest of the state, so that under repeated  *)
(* calls |setpoint| and |target| do not increase and shrink geometrically  *)
(* toward 0.                                                               *)
\* |x| < |y| and |x| <= |y|, compared over the common denominator
AbsLess(x, y) ==
    LET g == GCD(x[2], y[2])
    IN  IAbs(x[1]) * (y[2] \div g) < IAbs(y[1]) * (x[2] \div g)

AbsAtMost(x, y) == x = y \/ x = FNeg(y) \/ AbsLess(x, y)

C12_WindDownDecaysGeometrically ==
    Ran("winddown") =>
        /\ bt.setpoint = Frac(199 * old.setpoint[1], 200 * old.setpoint[2])
        /\ bt.target = Frac(99 * old.target[1], 100 * old.target[2])
        /\ AbsAtMost(bt.setpoint, old.setpoint)
        /\ AbsAtMost(bt.target, old.target)
        /\ old.setpoint # Zero => AbsLess(bt.setpoint, old.setpoint)
        /\ old.target # Zero => AbsLess(bt.target, old.target)

\* a winddown call that follows another one, on a setpoint and a target
\* that are live and already carry a decay
C12_Witness ==
    /\ Ran("winddown")
    /\ old.setpoint # Zero
    /\ old.target # Zero
    /\ ~MultipleOf(old.setpoint, 1)
    /\ ~MultipleOf(old.target, 1)
    /\ AbsLess(bt.setpoint, old.setpoint)

(* C13.  After every brake_tilt_winddown call hold-tilt is inactive and    *)
(* holdCounter == 0, and factor, holdTiltValue, pitchTimer, pitchAtTrigger *)
(* and the pitch-drop latch are as before the call.                        *)
C13_WindDownClearsHoldOnly ==
    Ran("winddown") =>
        /\ ~bt.hold_tilt_active
        /\ bt.hold_counter = 0
        /\ bt.factor = old.factor
        /\ bt.hold_tilt_value = old.hold_tilt_value
        /\ bt.pitch_timer = old.pitch_timer
        /\ bt.pitch_at_trigger = old.pitch_at_trigger
        /\ bt.hold_tilt_pitch_drop_detected = old.hold_tilt_pitch_drop_detected

\* winddown stopped a hold-tilt that was counting
C13_Witness ==
    /\ Ran("winddown")
    /\ old.hold_tilt_active
    /\ old.hold_counter > 0
    /\ old.hold_tilt_value # Zero
    /\ ~bt.hold_tilt_active
    /\ bt.hold_counter = 0

(* C14.  On every gate-passing brake_tilt_update call on which hold-tilt   *)
(* is active after the activation step (the activating tick and the        *)
(* expiring tick included), the setpoint after the call is holdTiltValue   *)
(* if balancePitch >= holdTiltValue and holdTiltValue + 0.5 *              *)
(* (holdTiltValue - balancePitch) otherwise, whatever the previous         *)
(* setpoint, the target and the step sizes: no rate limiting on that tick. *)
HoldEngaged == Passed /\ (old.hold_tilt_active \/ DropInWindow)

RefLockedSetpoint ==
    IF FGe(call.imu.balance_pitch, bt.hold_tilt_value)
    THEN bt.hold_tilt_value
    ELSE FAdd(bt.hold_tilt_value,
              FMul(Frac(1, 2),
                   FSub(bt.hold_tilt_value, call.imu.balance_pitch)))

C14_HoldTickSetsSetpoint ==
    HoldEngaged => bt.setpoint = RefLockedSetpoint

\* the expiring tick of a hold-tilt lifts the setpoint above both the
\* previous setpoint and the target, which no rate limiter does
C14_Witness ==
    /\ HoldEngaged
    /\ old.hold_tilt_active
    /\ ~bt.hold_tilt_active
    /\ FLt(call.imu.balance_pitch, bt.hold_tilt_value)
    /\ FGt(bt.setpoint, old.setpoint)
    /\ FGt(bt.setpoint, bt.target)
    /\ FGt(old.setpoint, Zero)

(* C15.  On every gate-passing brake_tilt_update call on which hold-tilt   *)
(* is not active after the activation step, the new setpoint lies between  *)
(* the old setpoint and target (inclusive), differs from the old setpoint  *)
(* by at most the chosen step size, and equals target when                 *)
(* |target - old setpoint| <= step size.                                   *)
RateLimited == Passed /\ ~old.hold_tilt_active /\ ~DropInWindow

\* the step size of the call: 1.5 x "on" when accelerating, "on" below 800
\* ERPM, else "off" over lingering; halved below 500 ERPM
RefStep ==
    LET base == IF FGt(fabsf(bt.target), fabsf(old.setpoint))
                THEN FMul(Frac(3, 2), call.atr.on_step_size)
                ELSE IF FLt(call.motor.abs_erpm, F(800))
                     THEN call.atr.on_step_size
                     ELSE FDiv(call.atr.off_step_size,
                               F(config.braketilt_lingering))
    IN  IF FLt(call.motor.abs_erpm, F(500))
        THEN FMul(Frac(1, 2), base)
        ELSE base

\* least common multiple of two denominators
LCM(a, b) == (a \div GCD(a, b)) * b

\* the old setpoint, the new setpoint, the target and the step size are
\* compared as integers, over their common denominator den
C15_SetpointNeverOvershoots ==
    RateLimited =>
        LET step == RefStep
            den == LCM(LCM(old.setpoint[2], bt.target[2]),
                       LCM(bt.setpoint[2], step[2]))
            was == old.setpoint[1] * (den \div old.setpoint[2])
            now == bt.setpoint[1] * (den \div bt.setpoint[2])
            goal == bt.target[1] * (den \div bt.target[2])
            most == step[1] * (den \div step[2])
        IN  /\ \/ was <= now /\ now <= goal
               \/ goal <= now /\ now <= was
            /\ IAbs(now - was) <= most
            /\ IAbs(goal - was) <= most => bt.setpoint = bt.target

\* a move capped by the step size: the setpoint left its old value and has
\* not reached a live target
C15_Witness ==
    /\ RateLimited
    /\ bt.target # Zero
    /\ FGt(fabsf(FSub(bt.target, old.setpoint)), RefStep)
    /\ fabsf(FSub(bt.setpoint, old.setpoint)) = RefStep
    /\ bt.setpoint # bt.target

(* C16.  Whenever the rate-limiting step of brake_tilt_update is reached   *)
(* with absErpm < 800, target is 0, the acceleration case                  *)
(* |target| > |setpoint| does not hold, and the setpoint moves toward 0    *)
(* by the "on" step unscaled (halved when absErpm < 500), never by 1.5 x   *)
(* the "on" step.                                                          *)
Slow == FLt(call.motor.abs_erpm, F(800))

SlowStep ==
    IF FLt(call.motor.abs_erpm, F(500))
    THEN FMul(Frac(1, 2), call.atr.on_step_size)
    ELSE call.atr.on_step_size

\* value moved toward 0 by at most step
TowardZero(value, step) ==
    IF FLe(fabsf(value), step) THEN Zero
    ELSE IF FGt(value, Zero) THEN FSub(value, step)
    ELSE FAdd(value, step)

C16_SlowStepIsOnStep ==
    (RateLimited /\ Slow) =>
        /\ bt.target = Zero
        /\ ~FGt(fabsf(bt.target), fabsf(old.setpoint))
        /\ bt.setpoint = TowardZero(old.setpoint, SlowStep)

\* between 500 and 800 ERPM a setpoint left by hold-tilt comes down by
\* exactly the "on" step, which differs from the other two step sizes
C16_Witness ==
    /\ RateLimited
    /\ Slow
    /\ FGe(call.motor.abs_erpm, F(500))
    /\ old.target # Zero
    /\ bt.setpoint # Zero
    /\ fabsf(FSub(bt.setpoint, old.setpoint)) = call.atr.on_step_size
    /\ call.atr.on_step_size # FMul(Frac(3, 2), call.atr.on_step_size)
    /\ call.atr.on_step_size #
           FDiv(call.atr.off_step_size, F(config.braketilt_lingering))

(* C17.  After every completed operation, in any sequence and for any     *)
(* configured hold timeout (0 and negative included), hold-tilt is active  *)
(* if and only if holdCounter > 0; holdCounter == 0 whenever hold-tilt is  *)
(* inactive and holdCounter >= 0 always.                                   *)
C17_ActiveIffCounting ==
    /\ bt.hold_tilt_active <=> bt.hold_counter > 0
    /\ ~bt.hold_tilt_active => bt.hold_counter = 0
    /\ bt.hold_counter >= 0

\* a pitch drop under a timeout <= 0: hold-tilt is taken and released in
\* the same call, which leaves the counter at 0
C17_Witness ==
    /\ DropInWindow
    /\ config.hold_tilt_timeout < 0
    /\ bt.hold_tilt_value = config.hold_tilt_angle
    /\ old.hold_tilt_value # config.hold_tilt_angle
    /\ ~bt.hold_tilt_active
    /\ bt.hold_counter = 0

(* C18.  The pitch-drop latch never persists across calls: after every     *)
(* completed operation, in any sequence, pitchDropDetected is false; an    *)
(* update that sets the latch consumes it in the same call by activating   *)
(* hold-tilt.                                                              *)
C18_LatchNeverPersists ==
    /\ bt.hold_tilt_pitch_drop_detected = 0
    /\ DropInWindow => bt.hold_tilt_value = config.hold_tilt_angle

\* a call that latched a pitch drop and activated hold-tilt with it
C18_Witness ==
    /\ DropInWindow
    /\ bt.hold_tilt_active
    /\ ~old.hold_tilt_active
    /\ bt.hold_tilt_pitch_drop_detected = 0

(* C19.  A brake_tilt_update call on which the disable gate fires changes  *)
(* only target, holdTiltActive and holdCounter: setpoint, pitchTimer,      *)
(* pitchAtTrigger, the pitch-drop latch, holdTiltValue and factor are as   *)
(* before the call.                                                        *)
C19_GateFrame ==
    Gated =>
        /\ bt.setpoint = old.setpoint
        /\ bt.pitch_timer = old.pitch_timer
        /\ bt.pitch_at_trigger = old.pitch_at_trigger
        /\ bt.hold_tilt_pitch_drop_detected = old.hold_tilt_pitch_drop_detected
        /\ bt.hold_tilt_value = old.hold_tilt_value
        /\ bt.factor = old.factor

\* the gate fired with a window open, time passing, and setpoint and
\* target live: the window and the setpoint are left as they were
C19_Witness ==
    /\ Gated
    /\ FGt(old.pitch_timer, Zero)
    /\ FGt(call.dt, Zero)
    /\ old.pitch_at_trigger # Zero
    /\ old.setpoint # Zero
    /\ old.target # Zero
    /\ bt.target = Zero
    /\ bt.pitch_timer = old.pitch_timer
    /\ bt.setpoint = old.setpoint

(* C20, as stated.  Hold-tilt changes from inactive to active only        *)
(* inside a brake_tilt_update call on which the gate did not fire,         *)
(* pitchTimer > 0 at the start, |target| of this call > holdTiltMinTarget  *)
(* and pitchAtTrigger - currentPitch > holdTiltPitchDeltaThreshold;        *)
(* hence never on the call that opens a window, and never when             *)
(* holdTiltTimeWindow <= 0.                                                *)

\* an operation activated hold-tilt: it is active after the operation and
\* was not before, or the operation wrote a new held value (an activation
\* released again in the same call)
ActivationSeen ==
    /\ pc = "done"
    /\ ~old.hold_tilt_active
    /\ \/ bt.hold_tilt_active
       \/ bt.hold_tilt_value # old.hold_tilt_value /\ bt.hold_tilt_value # Zero

C20_ActivationOnlyByDropNeverWithoutWindow ==
    ActivationSeen =>
        /\ DropInWindow
        /\ FGt(config.hold_tilt_time_window, Zero)

(* C20, amended.  Hold-tilt changes from inactive to active only inside a  *)
(* call as above; hence never on the call that opens a window.  While      *)
(* holdTiltTimeWindow <= 0 an update that starts with no window open       *)
(* leaves none open, so that hold-tilt then activates only through a       *)
(* window opened while holdTiltTimeWindow was > 0 and still open.          *)
C20_ActivationOnlyByDropInOpenWindow ==
    /\ ActivationSeen => DropInWindow
    /\ (Updated /\ FLe(old.pitch_timer, Zero)) => ~ActivationSeen
    /\ ( /\ Updated
         /\ FLe(old.pitch_timer, Zero)
         /\ FLe(config.hold_tilt_time_window, Zero) )
       => FLe(bt.pitch_timer, Zero)

\* an activation that is released in the same call (timeout 1), under a
\* positive window: seen by the held value it wrote
C20_Witness ==
    /\ ActivationSeen
    /\ DropInWindow
    /\ FGt(config.hold_tilt_time_window, Zero)
    /\ config.hold_tilt_timeout = 1
    /\ ~bt.hold_tilt_active
    /\ bt.hold_tilt_value = config.hold_tilt_angle

====
